---- MODULE Spec2Model ----
(***************************************************************************)
(* Model of the LSP profiling harnesses scripts/profile_startup.py and     *)
(* scripts/profile_simple.py: the Content-Length framing (send_message,    *)
(* read_message), the initialize handshake, the diagnostics wait loop and  *)
(* the shutdown sequence, run against a child process that may write any   *)
(* frames, in any chunks, stall, or exit.                                  *)
(*                                                                         *)
(* Specifications.  Spec runs both scripts with unbounded pipes; WaitSpec  *)
(* and MalformedSpec run profile_startup against children with other       *)
(* frames; PipeSpec runs it with pipes of bounded capacity; DrainSpec is   *)
(* the stderr thread beside main; CodecSpec applies send_message and the   *)
(* header parse to strings and header blocks taken alone.                  *)
(*                                                                         *)
(* Wire units.  The byte streams are sequences of strings, one string per  *)
(* wire unit: "CR" "LF" ":" " " and the digits are single bytes; "K" is    *)
(* the header key Content-Length as send_message spells it, "k" the same   *)
(* key in lower case; "{" and "}" delimit a JSON object and every other    *)
(* unit is one member of the object (the table Members gives its key and   *)
(* value).  Lengths count units.                                           *)
(*                                                                         *)
(* Time.  The unit is the polling interval of select (0.1 s); the timeouts *)
(* of the scripts are scaled down to a few intervals each.  A deadline     *)
(* d = time.time() + t is kept as the time left, d - time.time(): it       *)
(* starts at t, every interval that passes takes one off, and              *)
(* time.time() < d reads "more than 0 left".  Time passes only while the   *)
(* harness is suspended (select, sleep, a blocking read, proc.wait);       *)
(* computation is instantaneous.                                           *)
(***************************************************************************)
EXTENDS Integers, Sequences, FiniteSets, TLC

\* ------------------------------------------------------------------ values

\* Python's None, as returned by read_message and dict.get.
None == [k \in {"None"} |-> TRUE]

Digits == <<"0", "1", "2", "3", "4", "5", "6", "7", "8", "9">>

DigitSet == {Digits[i] : i \in 1..10}

DigitVal(d) == (CHOOSE i \in 1..10 : Digits[i] = d) - 1

Whitespace == {" ", "CR", "LF"}

\* The document URIs the child may name, as the path components after the
\* scheme; the first two are the files the harness opens.
UriOos == <<"file://", "ws", "oos.r">>

UriCollate == <<"file://", "ws", "validation_functions", "collate.r">>

UriOther == <<"file://", "elsewhere", "oos.r">>

\* JSON object members: wire unit |-> <<key, value>>.
Members ==
    [u \in {"i1", "i7", "i99", "mCfg", "mPub", "mLog", "uOos", "uCol", "uOth",
            "d0", "d1", "d3", "res"} |->
        CASE u = "i1"    -> <<"id", 1>>
          [] u = "i7"    -> <<"id", 7>>
          [] u = "i99"   -> <<"id", 99>>
          [] u = "mCfg"  -> <<"method", "workspace/configuration">>
          [] u = "mPub"  -> <<"method", "textDocument/publishDiagnostics">>
          [] u = "mLog"  -> <<"method", "window/logMessage">>
          [] u = "uOos"  -> <<"uri", UriOos>>
          [] u = "uCol"  -> <<"uri", UriCollate>>
          [] u = "uOth"  -> <<"uri", UriOther>>
          [] u = "d0"    -> <<"diagnostics", 0>>
          [] u = "d1"    -> <<"diagnostics", 1>>
          [] u = "d3"    -> <<"diagnostics", 3>>
          [] u = "res"   -> <<"result", TRUE>>]

MemberKeys == <<"id", "method", "uri", "diagnostics", "result">>

\* A message is a dict: a function from the keys present to their values.
\* diagnostics holds the length of the list, the only thing the harness reads.
Request(id, method) == [k \in {"id", "method"} |-> IF k = "id" THEN id ELSE method]

Response(id) == [k \in {"id", "result"} |-> IF k = "id" THEN id ELSE TRUE]

Notification(method) == [k \in {"method"} |-> method]

PublishDiagnostics(uri, n) ==
    [k \in {"method", "uri", "diagnostics"} |->
        CASE k = "method" -> "textDocument/publishDiagnostics"
          [] k = "uri" -> uri
          [] k = "diagnostics" -> n]

\* msg.get("method") == name
MethodIs(m, name) == "method" \in DOMAIN m /\ m["method"] = name

\* ------------------------------------------------------------------ codec

RECURSIVE ToDigits(_)
\* str(n) for n >= 0.
ToDigits(n) ==
    IF n < 10 THEN <<Digits[n + 1]>>
    ELSE ToDigits(n \div 10) \o <<Digits[(n % 10) + 1]>>

RECURSIVE FromDigits(_)
\* int(s) for a non-empty run of digits.
FromDigits(s) ==
    IF Len(s) = 1 THEN DigitVal(s[1])
    ELSE 10 * FromDigits(SubSeq(s, 1, Len(s) - 1)) + DigitVal(s[Len(s)])

\* The unit that encodes member <<key, value>>.
MemberUnit(key, value) == CHOOSE u \in DOMAIN Members : Members[u] = <<key, value>>

RECURSIVE DumpMembers(_, _)
DumpMembers(m, i) ==
    IF i > Len(MemberKeys) THEN <<>>
    ELSE (IF MemberKeys[i] \notin DOMAIN m THEN <<>>
          ELSE <<MemberUnit(MemberKeys[i], m[MemberKeys[i]])>>)
         \o DumpMembers(m, i + 1)

\* json.dumps(msg): the members in the dict's order between braces.
JsonDumps(m) == <<"{">> \o DumpMembers(m, 1) \o <<"}">>

\* Mutant of JsonValid: an object cut short is accepted.
JsonValidLenient(b) ==
    /\ Len(b) >= 1
    /\ b[1] = "{"
    /\ \A i \in 2..Len(b) : b[i] \in DOMAIN Members \cup {"}"}

\* json.loads accepts exactly one complete object: braces around members.
JsonValid(b) ==
    /\ Len(b) >= 2
    /\ b[1] = "{"
    /\ b[Len(b)] = "}"
    /\ \A i \in 2..(Len(b) - 1) : b[i] \in DOMAIN Members

\* The value json.loads gives key k: that of the last member with that key.
LoadKey(b, k) ==
    LET at == {i \in 2..(Len(b) - 1) : Members[b[i]][1] = k}
    IN  Members[b[CHOOSE i \in at : \A j \in at : j <= i]][2]

\* json.loads(content) for content on which it does not raise.
JsonLoads(b) ==
    [k \in {Members[b[i]][1] : i \in 2..(Len(b) - 1)} |-> LoadKey(b, k)]

\* Mutant of FrameHeader: the length is one short of the body's.
FrameHeaderShort(n) ==
    <<"K", ":", " ">> \o ToDigits(n - 1) \o <<"CR", "LF", "CR", "LF">>

\* The header send_message writes for a body of n units.
FrameHeader(n) == <<"K", ":", " ">> \o ToDigits(n) \o <<"CR", "LF", "CR", "LF">>

\* The bytes send_message writes for msg.
Encode(m) == FrameHeader(Len(JsonDumps(m))) \o JsonDumps(m)

\* header.endswith(b"\r\n\r\n")
EndsWithBlankLine(h) ==
    /\ Len(h) >= 4
    /\ SubSeq(h, Len(h) - 3, Len(h)) = <<"CR", "LF", "CR", "LF">>

RECURSIVE LStrip(_)
LStrip(s) == IF s # <<>> /\ Head(s) \in Whitespace THEN LStrip(Tail(s)) ELSE s

RECURSIVE RStrip(_)
RStrip(s) ==
    IF s # <<>> /\ s[Len(s)] \in Whitespace
    THEN RStrip(SubSeq(s, 1, Len(s) - 1)) ELSE s

\* str.strip()
Strip(s) == LStrip(RStrip(s))

RECURSIVE SplitLines(_, _)
\* s.split("\r\n"), cur being the line under construction.
SplitLines(s, cur) ==
    IF s = <<>> THEN <<cur>>
    ELSE IF Len(s) >= 2 /\ s[1] = "CR" /\ s[2] = "LF"
         THEN <<cur>> \o SplitLines(SubSeq(s, 3, Len(s)), <<>>)
         ELSE SplitLines(Tail(s), Append(cur, Head(s)))

\* str.lower() of one unit.
Lower(u) == IF u = "K" THEN "k" ELSE u

\* line.lower().startswith("content-length:")
IsLengthLine(line) == Len(line) >= 2 /\ Lower(line[1]) = "k" /\ line[2] = ":"

RECURSIVE UpToColon(_)
UpToColon(s) ==
    IF s = <<>> \/ Head(s) = ":" THEN <<>> ELSE <<Head(s)>> \o UpToColon(Tail(s))

RECURSIVE AfterColon(_)
AfterColon(s) ==
    IF s = <<>> THEN <<>> ELSE IF Head(s) = ":" THEN Tail(s) ELSE AfterColon(Tail(s))

\* line.split(":")[1].strip() of a line holding a colon.
LengthField(line) == Strip(UpToColon(AfterColon(line)))

\* int() raises ValueError unless its argument is a run of digits.
IsInt(s) == s # <<>> /\ \A i \in 1..Len(s) : s[i] \in DigitSet

RECURSIVE ScanLines(_, _)
\* The for loop over the header lines: the value content_length holds after
\* it, or -1 when int() raised on a length line.
ScanLines(lines, content_length) ==
    IF lines = <<>> THEN content_length
    ELSE IF IsLengthLine(Head(lines))
         THEN IF IsInt(LengthField(Head(lines)))
              THEN ScanLines(Tail(lines), FromDigits(LengthField(Head(lines))))
              ELSE -1
         ELSE ScanLines(Tail(lines), content_length)

\* content_length as read_message computes it from the header block.
ParseContentLength(h) == ScanLines(SplitLines(Strip(h), <<>>), 0)

\* ------------------------------------------------------------------ bounds

\* Frames the child writes (or starts to write) in one run.
MaxFrames == 3

\* The intervals past a deadline (of the diagnostics wait, of a read_message
\* call) that are counted.
MaxOverrun == 3

\* ------------------------------------------------------------------ timeouts
\* In polling intervals of 0.1 s.  The two short sleeps are exact (0.1 s and
\* 0.2 s); the timeouts of seconds are scaled down to a few intervals, their
\* order kept (interval < per-attempt timeout < overall timeout).

\* read_message(proc) for the initialize response: default timeout=30.
InitTimeout == 2

\* read_message(proc, timeout=120) in profile_simple.
SimpleInitTimeout == 3

\* time.sleep(0.1) after initialized.
InitSleep == 1

\* timeout = 30 of the diagnostics wait.
WaitTimeout == 4

\* read_message(proc, timeout=1) in the wait loop.
AttemptTimeout == 2

\* time.sleep(5) of profile_simple.
AsyncSleep == 2

\* time.sleep(0.2) between shutdown and exit.
ShutdownSleep == 2

\* time.sleep(0.5) between shutdown and exit in profile_simple.
SimpleShutdownSleep == 2

\* proc.wait(timeout=5).
ExitWait == 2

\* proc.wait(timeout=10) in profile_simple.
SimpleExitWait == 3

\* ------------------------------------------------------------------ the child

\* The messages the child may send: the response to initialize, diagnostics
\* for each opened file, a request of its own, and diagnostics for a document
\* of another directory that has the name of an opened file.
ChildMsgs ==
    << Response(1),
       PublishDiagnostics(UriOos, 0),
       PublishDiagnostics(UriCollate, 3),
       Request(7, "workspace/configuration"),
       PublishDiagnostics(UriOther, 1) >>

\* A header block without a Content-Length line ("X" is another header's key).
NoLengthHeader == <<"X", ":", " ", "7", "CR", "LF", "CR", "LF">>

\* The frames the child may write, each as its bytes on the wire: the messages
\* as send_message frames them and, last, the header block without a length.
ChildFrames ==
    [i \in 1..(Len(ChildMsgs) + 1) |->
        IF i <= Len(ChildMsgs) THEN Encode(ChildMsgs[i]) ELSE NoLengthHeader]

\* What the child sends in the runs of both scripts: the response, the
\* diagnostics of the opened files, its request.
HandshakeFrames == {1, 2, 3, 4}

\* What the child sends in the runs of the diagnostics wait: the response and
\* diagnostics, those of the other directory among them.
DiagnosticFrames == {1, 2, 3, 5}

\* What the child sends in the runs with a malformed header: the response,
\* diagnostics for one file, the header without a length.
MalformedFrames == {1, 2, 6}

\* files_to_open, as path components.
files_to_open == << <<"ws", "oos.r">>, <<"ws", "validation_functions", "collate.r">> >>

\* os.path.basename(uri.replace("file://", ""))
Basename(uri) ==
    LET path == SelectSeq(uri, LAMBDA c : c # "file://")
    IN  path[Len(path)]

\* {os.path.basename(f) for f in files_to_open}
opened_basenames == {Basename(files_to_open[i]) : i \in 1..Len(files_to_open)}

\* ------------------------------------------------------------------ state

VARIABLES
    script,       \* which harness runs: "startup" or "simple"
    pc,           \* position of main
    childState,   \* "running" or "exited"
    killed,       \* proc.kill() was called
    childPending, \* bytes of the frame the child is writing, not yet written
    wrote,        \* history: indices (in ChildFrames) of the frames the child began
    outPipe,      \* bytes in the child's stdout pipe, not yet read
    rbuf,         \* read-ahead buffer of proc.stdout (profile_simple: buffered)
    rm,           \* position of read_message: "idle", "header", "body", "ret"
    header,       \* header, local of read_message
    remaining,    \* deadline - time.time() of read_message
    content_length, \* content_length, local of read_message
    msg,          \* what read_message returned last (resp / msg of main)
    cause,        \* history: why read_message returned what it returned
    atCall,       \* history: i when the stream held exactly ChildFrames[i] at the call, else 0
    truncated,    \* history: the body read came up short at end-of-file
    wakeIn,       \* time left of the current sleep / proc.wait
    waitRemaining, \* deadline - time.time() of the diagnostics wait
    diagnostics_by_file,
    satisfied,    \* all_diagnostics_time is not None
    received,     \* history: the messages read_message has returned
    sent,         \* history: the methods of the messages send_message has written
    dispatched,   \* history: messages handed on by the wait loop without aggregation
    shutdownElapsed, \* history: time since the shutdown request was sent
    exc,          \* the exception that ended main, "" when none
    drain,        \* the stderr thread: "unstarted", "reading", "ended", "aborted"
    errPipe,      \* bytes in the child's stderr pipe, not yet read
    errWritten,   \* history: every byte the child wrote to stderr, in order
    errWrites,    \* history: the number of writes the child made to stderr
    linebuf,      \* bytes proc.stderr.readline() holds of a line not yet complete
    stderr_lines, \* output_lines of read_stderr: <<timestamp, text>> entries
    now,          \* time.time(), in polling intervals
    text,         \* a string value of a message to send (a path, a file's content)
    block,        \* a header block handed to the header parse of read_message
    inWire,       \* history: the bytes send_message wrote for the message with text
    inPipe,       \* the number of bytes in the child's stdin pipe
    inSent        \* history: the number of bytes main has written to stdin

vars ==
    <<script, pc, childState, killed, childPending, wrote, outPipe, rbuf,
      rm, header, remaining, content_length, msg, cause, atCall, truncated,
      wakeIn, waitRemaining,
      diagnostics_by_file, satisfied, received, sent, dispatched,
      shutdownElapsed, exc,
      drain, errPipe, errWritten, errWrites, linebuf, stderr_lines, now,
      text, block, inWire, inPipe, inSent>>

\* The state of the stderr thread and its pipe.
drainVars == <<drain, errPipe, errWritten, errWrites, linebuf, stderr_lines, now>>

\* What the handshake, the wait and the shutdown leave alone.
auxVars == <<drainVars, text, block, inWire, inPipe, inSent>>

\* The inputs and the output of the codec taken alone.
codecVars == <<text, block, inWire>>

\* The stdin pipe.
pipeVars == <<inPipe, inSent>>

childVars == <<childState, killed, childPending, wrote, outPipe>>

rmVars == <<rm, header, remaining, content_length, msg, cause, atCall, truncated, received>>

waitVars == <<waitRemaining, diagnostics_by_file, satisfied, dispatched>>

mainVars == <<pc, wakeIn, sent, shutdownElapsed, exc>>

EmptyDict == [k \in {} |-> 0]

\* The stderr side at spawn: nothing written, nothing read.
DrainInit ==
    /\ errPipe = <<>>
    /\ errWritten = <<>>
    /\ errWrites = 0
    /\ linebuf = <<>>
    /\ stderr_lines = <<>>
    /\ now = 0

\* No string or header block is singled out.
NoCodecInput == text = <<>> /\ block = <<>> /\ inWire = <<>>

\* The state with main at `at` and the stderr thread in state `thread`, the
\* child having written nothing yet.
InitAt(at, thread) ==
    /\ DrainInit
    /\ drain = thread
    /\ inPipe = 0
    /\ inSent = 0
    /\ script \in {"startup", "simple"}
    /\ pc = at
    /\ childState = "running"
    /\ killed = FALSE
    /\ childPending = <<>>
    /\ wrote = <<>>
    /\ outPipe = <<>>
    /\ rbuf = <<>>
    /\ rm = "idle"
    /\ header = <<>>
    /\ remaining = 0
    /\ content_length = 0
    /\ msg = None
    /\ cause = "none"
    /\ atCall = 0
    /\ truncated = FALSE
    /\ wakeIn = 0
    /\ waitRemaining = 0
    /\ diagnostics_by_file = EmptyDict
    /\ satisfied = FALSE
    /\ received = <<>>
    /\ sent = <<>>
    /\ dispatched = <<>>
    /\ shutdownElapsed = 0
    /\ exc = ""

\* Popen has returned and the stderr thread is started: main is about to send
\* initialize.
Init == InitAt("spawned", "reading") /\ NoCodecInput

\* main has ended: returned, left by sys.exit(1), or died of an exception.
Ended == pc \in {"done", "exited", "crashed"}

\* ------------------------------------------------------------------ the child's steps
\* The child is unconstrained: it writes any frames in any chunks at any time,
\* stalls, or exits.  Its steps are followed while the harness runs, its output
\* while the harness has a read_message call ahead of it.

\* main will call (or is in) read_message.
WillRead ==
    \/ pc \in {"spawned", "init_read", "wait"}
    \/ script = "startup" /\ pc = "sleep"

\* The length of the header block of frame f, its blank line included.
HeaderLen(f) ==
    CHOOSE n \in 1..Len(f) :
        /\ EndsWithBlankLine(SubSeq(f, 1, n))
        /\ \A k \in 1..(n - 1) : ~EndsWithBlankLine(SubSeq(f, 1, k))

\* Where the child may pause within frame f: inside the header, between header
\* and body, inside the body; and the end of the frame.
Cuts(f) == {2, HeaderLen(f), HeaderLen(f) + 2, Len(f)}

\* The bytes of one write of the child, `pending` being what is left of frame f.
Chunk(f, pending) ==
    LET written == Len(f) - Len(pending)
        upto == CHOOSE c \in Cuts(f) :
                    /\ c > written
                    /\ \A d \in Cuts(f) : d > written => c <= d
    IN  SubSeq(pending, 1, upto - written)

\* The child starts frame i: its first bytes reach the pipe.
ChildStartFrame(i) ==
    /\ WillRead
    /\ childState = "running"
    /\ childPending = <<>>
    /\ Len(wrote) < MaxFrames
    /\ wrote' = Append(wrote, i)
    /\ outPipe' = outPipe \o Chunk(ChildFrames[i], ChildFrames[i])
    /\ childPending' = SubSeq(ChildFrames[i], Len(Chunk(ChildFrames[i], ChildFrames[i])) + 1,
                              Len(ChildFrames[i]))
    /\ UNCHANGED <<script, childState, killed, rbuf>>
    /\ UNCHANGED <<rmVars, waitVars, mainVars>>
    /\ UNCHANGED auxVars

\* The next bytes of the frame under way reach the pipe.
ChildWrite ==
    /\ WillRead
    /\ childState = "running"
    /\ childPending # <<>>
    /\ outPipe' = outPipe \o Chunk(ChildFrames[wrote[Len(wrote)]], childPending)
    /\ childPending' =
          SubSeq(childPending,
                 Len(Chunk(ChildFrames[wrote[Len(wrote)]], childPending)) + 1,
                 Len(childPending))
    /\ UNCHANGED <<script, childState, killed, wrote, rbuf>>
    /\ UNCHANGED <<rmVars, waitVars, mainVars>>
    /\ UNCHANGED auxVars

\* The child exits (of its own accord, or obeying exit): its ends of the pipes
\* close; what it had not written is never written.
ChildExit ==
    /\ ~Ended
    /\ childState = "running"
    /\ childState' = "exited"
    /\ UNCHANGED <<script, killed, childPending, wrote, outPipe, rbuf>>
    /\ UNCHANGED <<rmVars, waitVars, mainVars>>
    /\ UNCHANGED auxVars

\* The frames the child has written to the last byte.
WroteCompletely ==
    IF childPending = <<>> THEN wrote ELSE SubSeq(wrote, 1, Len(wrote) - 1)

\* ------------------------------------------------------------------ read_message

\* select.select([proc.stdout], [], [], t)[0] is non-empty: bytes in the pipe, or
\* end-of-file.
Readable == outPipe # <<>> \/ childState = "exited"

\* What proc.stdout.read can draw on: its buffer, then the pipe.
Stream == rbuf \o outPipe

\* proc.stdout.read(n) returns: the raw stream of profile_startup (bufsize=0) as
\* soon as one byte or end-of-file is there, the buffered one of profile_simple
\* once n bytes or end-of-file are there.
ReadReturns(n) ==
    IF script = "startup" THEN Readable
    ELSE Len(Stream) >= n \/ childState = "exited"

\* The bytes proc.stdout.read(n) returns when it returns.
ReadBytes(n) == SubSeq(Stream, 1, IF n < Len(Stream) THEN n ELSE Len(Stream))

\* The stream after read(n): the raw stream takes the bytes off the pipe; the
\* buffered one serves from its buffer and, when that falls short, takes all
\* the pipe holds into the buffer.
AfterRead(n) ==
    /\ rbuf' = IF script = "startup" THEN <<>>
               ELSE SubSeq(Stream, Len(ReadBytes(n)) + 1,
                           IF Len(rbuf) >= n THEN Len(rbuf) ELSE Len(Stream))
    /\ outPipe' = IF script = "startup"
                  THEN SubSeq(outPipe, Len(ReadBytes(n)) + 1, Len(outPipe))
                  ELSE IF Len(rbuf) >= n THEN outPipe ELSE <<>>

\* read_message(proc, timeout) is entered: header = b""; deadline = now + timeout.
CallRead(timeout) ==
    /\ rm' = "header"
    /\ header' = <<>>
    /\ remaining' = timeout
    /\ content_length' = 0
    /\ msg' = None
    /\ cause' = "none"
    /\ atCall' = IF \E i \in 1..Len(ChildFrames) : Stream = ChildFrames[i]
                 THEN CHOOSE i \in 1..Len(ChildFrames) : Stream = ChildFrames[i]
                 ELSE 0
    /\ UNCHANGED <<truncated, received>>

\* return value: the locals of read_message are gone.
Return(value, why) ==
    /\ rm' = "ret"
    /\ msg' = value
    /\ cause' = why
    /\ received' = IF value = None THEN received ELSE Append(received, value)
    /\ header' = <<>>
    /\ remaining' = 0
    /\ content_length' = 0
    /\ UNCHANGED atCall

\* An exception nobody catches leaves read_message (if raised there) and main.
Raise(e) ==
    /\ pc' = "crashed"
    /\ exc' = e
    /\ rm' = "idle"
    /\ header' = <<>>
    /\ remaining' = 0
    /\ content_length' = 0
    /\ msg' = None
    /\ cause' = "none"
    /\ UNCHANGED <<atCall, received>>

\* while time.time() < deadline ... else: return None
ReadTimeout ==
    /\ rm = "header"
    /\ remaining <= 0
    /\ Return(None, "timeout")
    /\ UNCHANGED <<script, rbuf, truncated>>
    /\ UNCHANGED <<childVars, waitVars, mainVars>>
    /\ UNCHANGED auxVars

\* select reported the stream readable; char = proc.stdout.read(1) and the rest
\* of the iteration; when the header is complete, the length is parsed.
ReadChar ==
    /\ rm = "header"
    /\ remaining > 0
    /\ Readable
    /\ IF Stream = <<>>
       THEN /\ Return(None, "eof")
            /\ UNCHANGED <<rbuf, outPipe, mainVars>>
       ELSE /\ AfterRead(1)
            /\ IF ~EndsWithBlankLine(Append(header, Head(Stream)))
               THEN /\ header' = Append(header, Head(Stream))
                    /\ UNCHANGED <<rm, remaining, content_length, msg, cause, atCall, received>>
                    /\ UNCHANGED mainVars
               ELSE IF ParseContentLength(Append(header, Head(Stream))) < 0
               THEN /\ Raise("ValueError")
                    /\ UNCHANGED <<wakeIn, sent, shutdownElapsed>>
               ELSE IF ParseContentLength(Append(header, Head(Stream))) = 0
               THEN /\ Return(None, "nolength")
                    /\ UNCHANGED mainVars
               ELSE /\ rm' = "body"
                    /\ content_length' = ParseContentLength(Append(header, Head(Stream)))
                    /\ header' = <<>>
                    /\ UNCHANGED <<remaining, msg, cause, atCall, received>>
                    /\ UNCHANGED mainVars
    /\ UNCHANGED <<script, childState, killed, childPending, wrote, truncated>>
    /\ UNCHANGED waitVars
    /\ UNCHANGED auxVars

\* content = proc.stdout.read(content_length); return json.loads(content)
ReadBody ==
    /\ rm = "body"
    /\ ReadReturns(content_length)
    /\ AfterRead(content_length)
    /\ truncated' = (Len(ReadBytes(content_length)) < content_length
                        /\ childState = "exited")
    /\ IF JsonValid(ReadBytes(content_length))
       THEN /\ Return(JsonLoads(ReadBytes(content_length)), "message")
            /\ UNCHANGED mainVars
       ELSE /\ Raise("JSONDecodeError")
            /\ UNCHANGED <<wakeIn, sent, shutdownElapsed>>
    /\ UNCHANGED <<script, childState, killed, childPending, wrote>>
    /\ UNCHANGED waitVars
    /\ UNCHANGED auxVars

\* ------------------------------------------------------------------ time

\* The harness is suspended: in select with nothing to read, in a blocking read,
\* in time.sleep, or in proc.wait.
Suspended ==
    \/ rm = "header" /\ remaining > 0 /\ ~Readable
    \/ rm = "body" /\ ~ReadReturns(content_length)
    \/ pc \in {"sleep", "shutdown_sleep"} /\ wakeIn > 0
    \/ pc = "proc_wait" /\ childState = "running" /\ wakeIn > 0

\* One polling interval passes.
Tick ==
    /\ Suspended
    /\ remaining' =
          IF rm = "header" \/ (rm = "body" /\ remaining > -MaxOverrun)
          THEN remaining - 1 ELSE remaining
    /\ waitRemaining' =
          IF pc = "wait" /\ waitRemaining > -MaxOverrun
          THEN waitRemaining - 1 ELSE waitRemaining
    /\ wakeIn' = IF wakeIn > 0 THEN wakeIn - 1 ELSE wakeIn
    /\ shutdownElapsed' =
          IF pc \in {"shutdown_sleep", "proc_wait"}
          THEN shutdownElapsed + 1 ELSE shutdownElapsed
    /\ UNCHANGED <<script, rbuf, pc, sent, exc>>
    /\ UNCHANGED <<rm, header, content_length, msg, cause, atCall, truncated, received>>
    /\ UNCHANGED <<diagnostics_by_file, satisfied, dispatched>>
    /\ UNCHANGED childVars
    /\ UNCHANGED auxVars

\* ------------------------------------------------------------------ main

\* send_message on a pipe whose reader is gone raises BrokenPipeError.
CanSend == childState = "running"

\* The timeout main passes to read_message for the initialize response.
InitReadTimeout == IF script = "startup" THEN InitTimeout ELSE SimpleInitTimeout

\* send_message(initialize); resp = read_message(proc) is entered.
SendInitialize ==
    /\ pc = "spawned"
    /\ IF CanSend
       THEN /\ sent' = Append(sent, "initialize")
            /\ pc' = "init_read"
            /\ CallRead(InitReadTimeout)
            /\ UNCHANGED exc
       ELSE /\ Raise("BrokenPipeError")
            /\ UNCHANGED sent
    /\ UNCHANGED <<script, rbuf, wakeIn, shutdownElapsed, truncated>>
    /\ UNCHANGED <<childVars, waitVars>>
    /\ UNCHANGED auxVars

\* profile_startup: if resp is None: proc.kill(); sys.exit(1).
GivesUpOnInit == script = "startup" /\ msg = None

\* read_message returned to the handshake: give up, or send initialized and
\* sleep.
InitResponse ==
    /\ pc = "init_read"
    /\ rm = "ret"
    /\ IF GivesUpOnInit
       THEN /\ killed' = TRUE
            /\ childState' = "exited"
            /\ pc' = "exited"
            /\ rm' = "idle"
            /\ UNCHANGED <<sent, wakeIn, exc, msg, cause, atCall, header, remaining,
                           content_length>>
       ELSE IF CanSend
       THEN /\ sent' = Append(sent, "initialized")
            /\ pc' = "sleep"
            /\ rm' = "idle"
            /\ msg' = None
            /\ cause' = "none"
            /\ atCall' = 0
            /\ wakeIn' = IF script = "startup" THEN InitSleep ELSE AsyncSleep
            /\ UNCHANGED <<killed, childState, exc, header, remaining, content_length>>
       ELSE /\ Raise("BrokenPipeError")
            /\ UNCHANGED <<killed, childState, sent, wakeIn>>
    /\ UNCHANGED <<script, rbuf, childPending, wrote, outPipe, received, truncated,
                   shutdownElapsed>>
    /\ UNCHANGED waitVars
    /\ UNCHANGED auxVars

\* profile_startup, the sleep over: didOpen for each file, then the wait begins.
OpenFiles ==
    /\ script = "startup"
    /\ pc = "sleep"
    /\ wakeIn <= 0
    /\ IF CanSend
       THEN /\ sent' = sent \o [i \in 1..Len(files_to_open) |-> "textDocument/didOpen"]
            /\ pc' = "wait"
            /\ waitRemaining' = WaitTimeout
            /\ diagnostics_by_file' = EmptyDict
            /\ UNCHANGED exc
            /\ UNCHANGED rmVars
       ELSE /\ Raise("BrokenPipeError")
            /\ UNCHANGED <<sent, waitRemaining, diagnostics_by_file, received, truncated>>
    /\ UNCHANGED <<script, rbuf, wakeIn, shutdownElapsed, satisfied, dispatched>>
    /\ UNCHANGED childVars
    /\ UNCHANGED auxVars

\* profile_simple, the sleep over: on to the shutdown.
AsyncSleepDone ==
    /\ script = "simple"
    /\ pc = "sleep"
    /\ wakeIn <= 0
    /\ pc' = "shutdown"
    /\ UNCHANGED <<script, rbuf, wakeIn, sent, shutdownElapsed, exc>>
    /\ UNCHANGED <<childVars, rmVars, waitVars>>
    /\ UNCHANGED auxVars

\* while time.time() < deadline: msg = read_message(proc, timeout=1)
WaitLoop ==
    /\ pc = "wait"
    /\ rm = "idle"
    /\ IF waitRemaining > 0
       THEN /\ CallRead(AttemptTimeout)
            /\ UNCHANGED <<pc, waitRemaining, truncated>>
       ELSE /\ pc' = "shutdown"
            /\ waitRemaining' = 0
            /\ UNCHANGED rmVars
    /\ UNCHANGED <<script, rbuf, wakeIn, sent, shutdownElapsed, exc>>
    /\ UNCHANGED <<diagnostics_by_file, satisfied, dispatched>>
    /\ UNCHANGED childVars
    /\ UNCHANGED auxVars

\* msg.get("method") == "textDocument/publishDiagnostics"
IsDiagnostics(m) == MethodIs(m, "textDocument/publishDiagnostics")

\* Mutant of Aggregate: dict.setdefault, the first count of a key is kept.
AggregateKeep(d, m) ==
    [b \in DOMAIN d \cup {Basename(m["uri"])} |->
        IF b \in DOMAIN d THEN d[b] ELSE m["diagnostics"]]

\* diagnostics_by_file[basename] = len(diags)
Aggregate(d, m) ==
    [b \in DOMAIN d \cup {Basename(m["uri"])} |->
        IF b = Basename(m["uri"]) THEN m["diagnostics"] ELSE d[b]]

\* Mutant of AllDiagnosed: one opened file with diagnostics is enough.
AllDiagnosedAny(d) == opened_basenames \cap DOMAIN d # {}

\* opened_basenames.issubset(diagnostics_by_file.keys())
AllDiagnosed(d) == opened_basenames \subseteq DOMAIN d

\* The body of the wait loop for the value read_message returned.
WaitProcess ==
    /\ pc = "wait"
    /\ rm = "ret"
    /\ rm' = "idle"
    /\ msg' = None
    /\ cause' = "none"
    /\ atCall' = 0
    /\ IF msg # None /\ IsDiagnostics(msg)
       THEN /\ diagnostics_by_file' = Aggregate(diagnostics_by_file, msg)
            /\ IF AllDiagnosed(diagnostics_by_file')
               THEN satisfied' = TRUE /\ pc' = "shutdown" /\ waitRemaining' = 0
               ELSE UNCHANGED <<satisfied, pc, waitRemaining>>
       ELSE UNCHANGED <<diagnostics_by_file, satisfied, pc, waitRemaining>>
    /\ UNCHANGED <<script, rbuf, wakeIn, sent, shutdownElapsed, exc, dispatched>>
    /\ UNCHANGED <<header, remaining, content_length, received, truncated>>
    /\ UNCHANGED childVars
    /\ UNCHANGED auxVars

\* send_message(shutdown); time.sleep
SendShutdown ==
    /\ pc = "shutdown"
    /\ IF CanSend
       THEN /\ sent' = Append(sent, "shutdown")
            /\ pc' = "shutdown_sleep"
            /\ wakeIn' = IF script = "startup" THEN ShutdownSleep ELSE SimpleShutdownSleep
            /\ UNCHANGED exc
            /\ UNCHANGED rmVars
       ELSE /\ Raise("BrokenPipeError")
            /\ UNCHANGED <<sent, wakeIn, received, truncated>>
    /\ UNCHANGED <<script, rbuf, shutdownElapsed>>
    /\ UNCHANGED <<childVars, waitVars>>
    /\ UNCHANGED auxVars

\* send_message(exit); proc.wait(timeout) is entered.
SendExit ==
    /\ pc = "shutdown_sleep"
    /\ wakeIn <= 0
    /\ IF CanSend
       THEN /\ sent' = Append(sent, "exit")
            /\ pc' = "proc_wait"
            /\ wakeIn' = IF script = "startup" THEN ExitWait ELSE SimpleExitWait
            /\ UNCHANGED exc
            /\ UNCHANGED rmVars
       ELSE /\ Raise("BrokenPipeError")
            /\ UNCHANGED <<sent, wakeIn, received, truncated>>
    /\ UNCHANGED <<script, rbuf, shutdownElapsed>>
    /\ UNCHANGED <<childVars, waitVars>>
    /\ UNCHANGED auxVars

\* proc.wait returns: the child has exited.
ProcWaitReturns ==
    /\ pc = "proc_wait"
    /\ childState = "exited"
    /\ pc' = "done"
    /\ UNCHANGED <<script, rbuf, wakeIn, sent, shutdownElapsed, exc>>
    /\ UNCHANGED <<childVars, rmVars, waitVars>>
    /\ UNCHANGED auxVars

\* except subprocess.TimeoutExpired: proc.kill() -- profile_startup only.
KillsOnTimeout == script = "startup"

\* proc.wait times out: TimeoutExpired is raised.
ProcWaitTimeout ==
    /\ pc = "proc_wait"
    /\ childState = "running"
    /\ wakeIn <= 0
    /\ IF KillsOnTimeout
       THEN /\ killed' = TRUE
            /\ childState' = "exited"
            /\ pc' = "done"
            /\ UNCHANGED exc
            /\ UNCHANGED rmVars
       ELSE /\ Raise("TimeoutExpired")
            /\ UNCHANGED <<killed, childState, received, truncated>>
    /\ UNCHANGED <<script, rbuf, wakeIn, sent, shutdownElapsed>>
    /\ UNCHANGED <<childPending, wrote, outPipe>>
    /\ UNCHANGED waitVars
    /\ UNCHANGED auxVars

\* ------------------------------------------------------------------ specification

Next ==
    \/ \E i \in HandshakeFrames : ChildStartFrame(i)
    \/ ChildWrite
    \/ ChildExit
    \/ ReadTimeout
    \/ ReadChar
    \/ ReadBody
    \/ Tick
    \/ SendInitialize
    \/ InitResponse
    \/ OpenFiles
    \/ AsyncSleepDone
    \/ WaitLoop
    \/ WaitProcess
    \/ SendShutdown
    \/ SendExit
    \/ ProcWaitReturns
    \/ ProcWaitTimeout

Spec == Init /\ [][Next]_vars

\* profile_startup alone, the child sending the frames of `frames`.
StartupInit == Init /\ script = "startup"

StartupNext(frames) ==
    \/ \E i \in frames : ChildStartFrame(i)
    \/ ChildWrite
    \/ ChildExit
    \/ ReadTimeout
    \/ ReadChar
    \/ ReadBody
    \/ Tick
    \/ SendInitialize
    \/ InitResponse
    \/ OpenFiles
    \/ WaitLoop
    \/ WaitProcess
    \/ SendShutdown
    \/ SendExit
    \/ ProcWaitReturns
    \/ ProcWaitTimeout

\* profile_startup with a child that sends diagnostics for documents of two
\* directories.
WaitSpec == StartupInit /\ [][StartupNext(DiagnosticFrames)]_vars

\* profile_startup with a child that sends a header block without a length.
MalformedSpec == StartupInit /\ [][StartupNext(MalformedFrames)]_vars

\* ------------------------------------------------------------------ the stderr thread
\* read_stderr runs in a daemon thread beside main.  main never touches
\* proc.stderr and only reads output_lines, so for the thread main is reduced
\* to the steps that matter to it: starting it, the first send, killing the
\* child, and ending (which ends the process and the daemon thread with it).
\* stderr bytes are units as on stdout: "A" "B" "C" are characters of text.

\* Writes the child makes to stderr in one run.
MaxErrWrites == 3

\* The capacity of the stderr pipe, in units.
ErrCap == 3

\* The intervals of time that are told apart.
MaxClock == 2

\* start_time = time.time(), taken before Popen: the origin of the clock.
start_time == 0

\* What the child may write to stderr in one write: lines of text, a line feed
\* alone (a blank line, or the end of a line begun before), and the beginning
\* of a line, with a blank before the text.
ErrWrites == << <<"A", "LF">>, <<"B", "LF">>, <<"LF">>, <<" ", "C">> >>

\* The child writes to stderr; the write blocks while the pipe has no room.
ErrChildWrite(i) ==
    /\ pc # "done"
    /\ childState = "running"
    /\ errWrites < MaxErrWrites
    /\ Len(errPipe) + Len(ErrWrites[i]) <= ErrCap
    /\ errPipe' = errPipe \o ErrWrites[i]
    /\ errWritten' = errWritten \o ErrWrites[i]
    /\ errWrites' = errWrites + 1
    /\ UNCHANGED <<drain, linebuf, stderr_lines, now>>
    /\ UNCHANGED <<script, rbuf>>
    /\ UNCHANGED <<childVars, rmVars, waitVars, mainVars>>
    /\ UNCHANGED <<codecVars, pipeVars>>

\* The child exits: its end of the stderr pipe closes.
ErrChildExit ==
    /\ pc # "done"
    /\ childState = "running"
    /\ childState' = "exited"
    /\ UNCHANGED <<script, rbuf, killed, childPending, wrote, outPipe>>
    /\ UNCHANGED <<rmVars, waitVars, mainVars, drainVars>>
    /\ UNCHANGED <<codecVars, pipeVars>>

\* The position of the first line feed in s, 0 when it has none.
FirstLF(s) ==
    IF \E i \in 1..Len(s) : s[i] = "LF"
    THEN CHOOSE i \in 1..Len(s) : s[i] = "LF" /\ \A j \in 1..(i - 1) : s[j] # "LF"
    ELSE 0

\* The timestamp read_stderr records: time.time() - start_time in
\* profile_startup, time.time() in profile_simple.
TimeStamp(t) == IF script = "startup" THEN t - start_time ELSE t

\* Mutant of Record: the newest entry is put first.
RecordFirst(lines, entry) == <<entry>> \o lines

\* output_lines.append(entry)
Record(lines, entry) == Append(lines, entry)

\* Mutant of DrainCanRead: stderr is read only while main has nothing to do.
DrainCanReadIdle == drain = "reading" /\ pc = "spawned"

\* The thread is in its loop; nothing main does holds it up.
DrainCanRead == drain = "reading"

\* proc.stderr.readline() takes what the pipe holds of a line still incomplete
\* and goes on blocking.
DrainFill ==
    /\ DrainCanRead
    /\ errPipe # <<>>
    /\ FirstLF(errPipe) = 0
    /\ linebuf' = linebuf \o errPipe
    /\ errPipe' = <<>>
    /\ UNCHANGED <<drain, errWritten, errWrites, stderr_lines, now>>
    /\ UNCHANGED <<script, rbuf>>
    /\ UNCHANGED <<childVars, rmVars, waitVars, mainVars>>
    /\ UNCHANGED <<codecVars, pipeVars>>

\* readline() returns, with a line or at end-of-file, and the rest of the
\* iteration: break on b"", else strip and record what is not blank.
DrainLine ==
    /\ DrainCanRead
    /\ FirstLF(errPipe) # 0 \/ (errPipe = <<>> /\ childState = "exited")
    /\ LET line == linebuf \o SubSeq(errPipe, 1, FirstLF(errPipe))
           decoded == Strip(line)
       IN  /\ errPipe' = SubSeq(errPipe, FirstLF(errPipe) + 1, Len(errPipe))
           /\ linebuf' = <<>>
           /\ drain' = IF line = <<>> THEN "ended" ELSE drain
           /\ stderr_lines' =
                 IF decoded # <<>>
                 THEN Record(stderr_lines, <<TimeStamp(now), decoded>>)
                 ELSE stderr_lines
    /\ UNCHANGED <<errWritten, errWrites, now>>
    /\ UNCHANGED <<script, rbuf>>
    /\ UNCHANGED <<childVars, rmVars, waitVars, mainVars>>
    /\ UNCHANGED <<codecVars, pipeVars>>

\* stderr_thread.start()
StartDrain ==
    /\ pc = "popen"
    /\ pc' = "spawned"
    /\ drain' = "reading"
    /\ UNCHANGED <<errPipe, errWritten, errWrites, linebuf, stderr_lines, now>>
    /\ UNCHANGED <<script, rbuf, wakeIn, sent, shutdownElapsed, exc>>
    /\ UNCHANGED <<childVars, rmVars, waitVars>>
    /\ UNCHANGED <<codecVars, pipeVars>>

\* main sends initialize and runs on: the handshake, the wait, the shutdown.
MainRuns ==
    /\ pc = "spawned"
    /\ pc' = "running"
    /\ sent' = Append(sent, "initialize")
    /\ UNCHANGED <<script, rbuf, wakeIn, shutdownElapsed, exc>>
    /\ UNCHANGED <<childVars, rmVars, waitVars, drainVars>>
    /\ UNCHANGED <<codecVars, pipeVars>>

\* main ends, after proc.kill() (profile_startup, no response or no exit in
\* time), after proc.wait() returned, or by an exception; the process exits, the
\* daemon thread and the read end of the pipe with it.
MainEnds ==
    /\ pc = "running"
    /\ pc' = "done"
    /\ \/ /\ script = "startup"
          /\ killed' = TRUE
          /\ childState' = "exited"
       \/ UNCHANGED <<killed, childState>>
    /\ drain' = IF drain = "ended" THEN "ended" ELSE "aborted"
    /\ errPipe' = <<>>
    /\ UNCHANGED <<errWritten, errWrites, linebuf, stderr_lines, now>>
    /\ UNCHANGED <<script, rbuf, wakeIn, sent, shutdownElapsed, exc>>
    /\ UNCHANGED <<childPending, wrote, outPipe>>
    /\ UNCHANGED <<rmVars, waitVars>>
    /\ UNCHANGED <<codecVars, pipeVars>>

\* An interval of time passes.
ClockTick ==
    /\ pc # "done"
    /\ now < MaxClock
    /\ now' = now + 1
    /\ UNCHANGED <<drain, errPipe, errWritten, errWrites, linebuf, stderr_lines>>
    /\ UNCHANGED <<script, rbuf>>
    /\ UNCHANGED <<childVars, rmVars, waitVars, mainVars>>
    /\ UNCHANGED <<codecVars, pipeVars>>

\* Popen has returned; the stderr thread is not started yet.
DrainSpecInit == InitAt("popen", "unstarted") /\ NoCodecInput

DrainNext ==
    \/ \E i \in 1..Len(ErrWrites) : ErrChildWrite(i)
    \/ ErrChildExit
    \/ DrainFill
    \/ DrainLine
    \/ StartDrain
    \/ MainRuns
    \/ MainEnds
    \/ ClockTick

DrainSpec == DrainSpecInit /\ [][DrainNext]_vars

\* main goes straight from Popen to stderr_thread.start(), and the thread is
\* scheduled whenever it can run: the interpreter switches threads every few
\* milliseconds and main releases the lock in select, read, sleep and wait.
DrainFairSpec ==
    DrainSpec /\ WF_vars(StartDrain) /\ WF_vars(DrainFill) /\ WF_vars(DrainLine)

\* ------------------------------------------------------------------ the codec alone
\* send_message applied to a message holding a string (the workspace path of
\* initialize, the file content of didOpen), and the header parse of
\* read_message applied to a header block.  A string is a sequence of
\* characters; on the wire a unit is one byte.

\* The characters a string is drawn from: an ASCII letter, the double quote, and
\* characters that take 2, 3 and 4 bytes in UTF-8.
Chars == {"a", "quote", "eacute", "euro", "smile"}

\* The characters of a string.
MaxText == 2

\* The lines of a header block.
MaxHeaderLines == 3

\* The sequences over S of length at most n.
SeqsUpTo(S, n) == UNION {[1..k -> S] : k \in 0..n}

\* Mutant of JsonEscape: ensure_ascii=False, only the quote is escaped.
JsonEscapeRaw(c) == IF c = "quote" THEN <<"bs", "dq">> ELSE <<c>>

\* The characters json.dumps writes for character c of a string: ASCII as it
\* is, the quote behind a backslash, the others as \uXXXX escapes (a surrogate
\* pair above the basic plane).
JsonEscape(c) ==
    CASE c = "a"      -> <<"a">>
      [] c = "quote"  -> <<"bs", "dq">>
      [] c = "eacute" -> <<"bs", "u", "0", "0", "e", "9">>
      [] c = "euro"   -> <<"bs", "u", "2", "0", "a", "c">>
      [] c = "smile"  -> <<"bs", "u", "d", "8", "3", "d", "bs", "u", "d", "e", "0", "0">>

RECURSIVE EscapeAll(_)
EscapeAll(s) == IF s = <<>> THEN <<>> ELSE JsonEscape(Head(s)) \o EscapeAll(Tail(s))

\* json.dumps of the message with string s: the method and the key of the
\* string (one unit each), the string between quotes.
DumpsText(s) == <<"{", "mOpen", "kText", "dq">> \o EscapeAll(s) \o <<"dq", "}">>

\* str.encode('utf-8') of one character.
Utf8(c) ==
    CASE c = "eacute" -> <<"xC3", "xA9">>
      [] c = "euro"   -> <<"xE2", "x82", "xAC">>
      [] c = "smile"  -> <<"xF0", "x9F", "x98", "x80">>
      [] OTHER        -> <<c>>

RECURSIVE Utf8Encode(_)
Utf8Encode(s) == IF s = <<>> THEN <<>> ELSE Utf8(Head(s)) \o Utf8Encode(Tail(s))

\* The bytes send_message writes for content: the header with len(content),
\* then content, encoded.
SendBytes(content) == Utf8Encode(FrameHeader(Len(content)) \o content)

\* Lines a header block may hold: three length lines (the key in either case,
\* with and without a blank) and a line of another header.
HeaderLines ==
    { <<"K", ":", " ", "3">>, <<"k", ":", "5">>, <<"K", ":", " ", "1", "2">>,
      <<"X", ":", " ", "7">> }

RECURSIVE JoinLines(_)
\* The lines, each ended by CR LF.
JoinLines(ls) ==
    IF ls = <<>> THEN <<>> ELSE Head(ls) \o <<"CR", "LF">> \o JoinLines(Tail(ls))

\* A header block: lines, then the blank line.
HeaderBlocks ==
    {JoinLines(ls) \o <<"CR", "LF">> : ls \in SeqsUpTo(HeaderLines, MaxHeaderLines) \ {<<>>}}

\* send_message(proc, msg) for the message with the string text.
SendText ==
    /\ pc = "codec"
    /\ inWire = <<>>
    /\ inWire' = SendBytes(DumpsText(text))
    /\ sent' = Append(sent, "textDocument/didOpen")
    /\ UNCHANGED <<text, block, script, rbuf, pc, wakeIn, shutdownElapsed, exc>>
    /\ UNCHANGED <<childVars, rmVars, waitVars, drainVars, pipeVars>>

\* The header parse of read_message for the block read: the loop over the
\* lines, then the test for length 0.
ParseHeader ==
    /\ pc = "codec"
    /\ cause = "none"
    /\ IF ParseContentLength(block) < 0
       THEN /\ exc' = "ValueError"
            /\ cause' = "raised"
            /\ UNCHANGED content_length
       ELSE /\ content_length' = ParseContentLength(block)
            /\ cause' = IF ParseContentLength(block) = 0 THEN "nolength" ELSE "parsed"
            /\ UNCHANGED exc
    /\ UNCHANGED <<rm, header, remaining, msg, atCall, truncated, received>>
    /\ UNCHANGED <<script, rbuf, pc, wakeIn, sent, shutdownElapsed>>
    /\ UNCHANGED <<childVars, waitVars, drainVars, codecVars, pipeVars>>

\* Any string and any header block.
CodecInit ==
    /\ InitAt("codec", "unstarted")
    /\ text \in SeqsUpTo(Chars, MaxText)
    /\ block \in HeaderBlocks
    /\ inWire = <<>>

CodecNext == SendText \/ ParseHeader

CodecSpec == CodecInit /\ [][CodecNext]_vars

\* ------------------------------------------------------------------ bounded pipes
\* profile_startup with pipes of bounded capacity.  send_message writes to
\* proc.stdin and returns when the pipe has taken the last byte; until then main
\* is inside send_message and reads nothing.  The child reads its stdin only
\* while it is not blocked writing to its stdout.  The content of stdin does
\* not matter to either side; its bytes are counted.

\* The capacity of the stdin pipe, in units.
InCap == 12

\* The capacity of the stdout pipe, in units.
OutCap == 6

\* The content of an opened file.
FileContent == <<"a", "eacute">>

\* The methods of the messages main sends.
SendMethods == {"initialize", "initialized", "textDocument/didOpen", "shutdown", "exit"}

\* The number of bytes send_message writes for the message with each method.
SendLen ==
    [method \in SendMethods |->
        Len(SendBytes(IF method = "textDocument/didOpen"
                      THEN DumpsText(FileContent)
                      ELSE <<"{", method, "}">>))]

RECURSIVE SendLens(_)
\* The bytes of the frames for the methods in q.
SendLens(q) == IF q = <<>> THEN 0 ELSE SendLen[Head(q)] + SendLens(Tail(q))

\* The messages main sends next, where it stands: the sends of the step it is
\* about to take.
DueSends ==
    IF ~CanSend THEN <<>>
    ELSE CASE pc = "spawned" -> <<"initialize">>
           [] pc = "init_read" /\ rm = "ret" /\ ~GivesUpOnInit -> <<"initialized">>
           [] pc = "sleep" /\ wakeIn <= 0 ->
                 [i \in 1..Len(files_to_open) |-> "textDocument/didOpen"]
           [] pc = "shutdown" -> <<"shutdown">>
           [] pc = "shutdown_sleep" /\ wakeIn <= 0 -> <<"exit">>
           [] OTHER -> <<>>

\* main is inside send_message: bytes of the messages due are not written yet.
Sending == CanSend /\ inSent < SendLens(sent \o DueSends)

\* proc.stdin.write: the pipe takes what it has room for.
PipeWrite ==
    /\ Sending
    /\ inPipe < InCap
    /\ LET n == IF InCap - inPipe < SendLens(sent \o DueSends) - inSent
                THEN InCap - inPipe
                ELSE SendLens(sent \o DueSends) - inSent
       IN  /\ inPipe' = inPipe + n
           /\ inSent' = inSent + n
    /\ UNCHANGED <<script, rbuf>>
    /\ UNCHANGED <<childVars, rmVars, waitVars, mainVars, drainVars, codecVars>>

\* The child's next write does not fit into stdout whole.
ChunkTooLong ==
    /\ childPending # <<>>
    /\ Len(outPipe) + Len(Chunk(ChildFrames[wrote[Len(wrote)]], childPending)) > OutCap

\* A write longer than the room stdout has: the pipe takes what it has room
\* for and the child blocks with the rest.
ChildWritePart ==
    /\ WillRead
    /\ childState = "running"
    /\ ChunkTooLong
    /\ Len(outPipe) < OutCap
    /\ outPipe' = outPipe \o SubSeq(childPending, 1, OutCap - Len(outPipe))
    /\ childPending' = SubSeq(childPending, OutCap - Len(outPipe) + 1, Len(childPending))
    /\ UNCHANGED <<script, childState, killed, wrote, rbuf>>
    /\ UNCHANGED <<rmVars, waitVars, mainVars, auxVars>>

\* The child is blocked writing the frame under way: stdout is full.
ChildBlocked ==
    /\ childState = "running"
    /\ childPending # <<>>
    /\ Len(outPipe) = OutCap

\* The child reads what its stdin holds.
ChildReadsInput ==
    /\ childState = "running"
    /\ ~ChildBlocked
    /\ inPipe > 0
    /\ inPipe' = 0
    /\ UNCHANGED <<script, rbuf, inSent>>
    /\ UNCHANGED <<childVars, rmVars, waitVars, mainVars, drainVars, codecVars>>

PipeNext ==
    \/ \E i \in HandshakeFrames : ChildStartFrame(i) /\ Len(outPipe') <= OutCap
    \/ ChildWrite /\ Len(outPipe') <= OutCap
    \/ ChildWritePart
    \/ ChildExit
    \/ ChildReadsInput
    \/ PipeWrite
    \/ ReadTimeout
    \/ ReadChar
    \/ ReadBody
    \/ Tick
    \/ ~Sending /\ SendInitialize
    \/ ~Sending /\ InitResponse
    \/ ~Sending /\ OpenFiles
    \/ WaitLoop
    \/ WaitProcess
    \/ ~Sending /\ SendShutdown
    \/ ~Sending /\ SendExit
    \/ ProcWaitReturns
    \/ ProcWaitTimeout

PipeSpec == StartupInit /\ [][PipeNext]_vars

\* ------------------------------------------------------------------ properties

Range(q) == {q[i] : i \in 1..Len(q)}

Front(q) == SubSeq(q, 1, Len(q) - 1)

IsPrefix(p, q) == Len(p) <= Len(q) /\ SubSeq(q, 1, Len(p)) = p

\* The messages of the frames the child has written completely, in order.
WrittenMsgs == [k \in 1..Len(WroteCompletely) |-> ChildMsgs[WroteCompletely[k]]]

\* The diagnostics wait has begun (didOpen is sent right before it).
WaitBegun == "textDocument/didOpen" \in Range(sent)

\* The messages read_message returned to the wait loop: all but the one the
\* handshake took.
WaitReceived == IF WaitBegun THEN Tail(received) ELSE <<>>

\* Those of them the loop body has processed.
Processed ==
    IF rm = "ret" /\ msg # None THEN Front(WaitReceived) ELSE WaitReceived

\* Every required key is the key of a publishDiagnostics notification in q.
Covered(q) ==
    opened_basenames \subseteq
        {Basename(q[k]["uri"]) : k \in {j \in 1..Len(q) : IsDiagnostics(q[j])}}

C2_WaitExit ==
    WaitBegun =>
        /\ satisfied <=> Covered(Processed)
        /\ satisfied =>
              /\ pc # "wait"
              /\ Processed = WaitReceived
              /\ Processed # <<>>
              /\ IsDiagnostics(Processed[Len(Processed)])
              /\ ~Covered(Front(Processed))

\* The wait ended satisfied.
C2_Witness == satisfied /\ pc = "shutdown" /\ Len(WaitReceived) >= 2

\* C3: while the wait loop runs, the time is at most one per-attempt timeout
\* past the overall deadline.
C3_WaitDeadline == pc = "wait" => waitRemaining >= -AttemptTimeout

RECURSIVE FramesLen(_)
\* The bytes of the frames with the indices q.
FramesLen(q) == IF q = <<>> THEN 0 ELSE Len(ChildFrames[Head(q)]) + FramesLen(Tail(q))

\* The bytes read_message has taken off the stream.
Consumed == FramesLen(wrote) - Len(childPending) - Len(Stream)

\* The frames the child wrote whose every byte read_message has taken.
WhollyConsumed ==
    Cardinality({k \in 1..Len(wrote) : FramesLen(SubSeq(wrote, 1, k)) <= Consumed})

\* C4: the messages read_message has returned are a prefix of the messages the
\* child wrote completely, and between calls every frame taken off the stream
\* whole has been returned.
C4_StreamOrder ==
    /\ IsPrefix(received, WrittenMsgs)
    /\ rm \in {"idle", "ret"} => Len(received) >= WhollyConsumed

\* C5: what read_message returns at end-of-file differs from None, the value
\* it returns when its deadline elapses.
C5_ClosedIsNotTimeout == (rm = "ret" /\ cause = "eof") => msg # None

C7_InitCorrelation ==
    "initialized" \in Range(sent) =>
        /\ received # <<>>
        /\ "id" \in DOMAIN received[1]
        /\ received[1]["id"] = 1
        /\ "method" \notin DOMAIN received[1]

\* C8: when main has ended, the child has exited, or was killed, or was sent
\* exit.
C8_NoOrphan ==
    Ended => childState = "exited" \/ killed \/ "exit" \in Range(sent)

\* The grace period and the wait for termination of the script.
ShutdownBound ==
    IF script = "startup" THEN ShutdownSleep + ExitWait
    ELSE SimpleShutdownSleep + SimpleExitWait

\* C9: the shutdown sequence lasts no longer than the grace period plus the
\* wait for termination, and when it is over the child is not running.
C9_ShutdownBounded ==
    /\ pc \in {"shutdown_sleep", "proc_wait"} => shutdownElapsed <= ShutdownBound
    /\ (Ended /\ "shutdown" \in Range(sent)) => childState = "exited"

\* C10: every message the wait loop processed that is no publishDiagnostics
\* notification was handed on.
C10_Dispatched ==
    \A k \in 1..Len(Processed) :
        ~IsDiagnostics(Processed[k]) => Processed[k] \in Range(dispatched)

RECURSIVE LinesOf(_, _)
\* The lines of the byte sequence s, line feeds off; cur is the line under way.
LinesOf(s, cur) ==
    IF s = <<>> THEN (IF cur = <<>> THEN <<>> ELSE <<cur>>)
    ELSE IF Head(s) = "LF" THEN <<cur>> \o LinesOf(Tail(s), <<>>)
    ELSE LinesOf(Tail(s), Append(cur, Head(s)))

\* The bytes readline() has returned: all the child wrote but what is still in
\* the pipe or held of an incomplete line.
ErrReturned ==
    SubSeq(errWritten, 1, Len(errWritten) - Len(errPipe) - Len(linebuf))

\* The texts of the lines in q that are not blank, stripped, in order.
Texts(q) ==
    SelectSeq([k \in 1..Len(q) |-> Strip(q[k])], LAMBDA x : x # <<>>)

\* C11: the record of read_stderr only grows at its end; its texts are those
\* of the lines read so far that are not blank, in the order they arrived, and
\* its timestamps never decrease.
C11_DrainOrder ==
    /\ [](drain # "aborted" =>
            [k \in 1..Len(stderr_lines) |-> stderr_lines[k][2]]
                = Texts(LinesOf(ErrReturned, <<>>)))
    /\ [](\A j, k \in 1..Len(stderr_lines) :
            j <= k => stderr_lines[j][1] <= stderr_lines[k][1])
    /\ [][IsPrefix(stderr_lines, stderr_lines')]_vars

\* The lines A, B and C (written with a blank before it and cut off by the
\* child's exit) were recorded in that order at three different times.
C11_Witness ==
    /\ Len(stderr_lines) = 3
    /\ [k \in 1..3 |-> stderr_lines[k][2]] = << <<"A">>, <<"B">>, <<"C">> >>
    /\ stderr_lines[1][1] < stderr_lines[2][1]
    /\ stderr_lines[2][1] < stderr_lines[3][1]

\* C12: the length in the header of the frame send_message wrote is the number
\* of bytes that follow the header on the wire.
C12_FrameLength ==
    inWire # <<>> =>
        ParseContentLength(SubSeq(inWire, 1, HeaderLen(inWire)))
            = Len(inWire) - HeaderLen(inWire)

\* A frame was written for a string with characters of several bytes.
C12_Witness ==
    /\ inWire # <<>>
    /\ "smile" \in Range(text)
    /\ "eacute" \in Range(text)

\* The value of the first length line among lines, 0 when there is none.
FirstLength(lines) ==
    IF \E i \in 1..Len(lines) : IsLengthLine(lines[i])
    THEN FromDigits(LengthField(lines[
            CHOOSE i \in 1..Len(lines) :
                /\ IsLengthLine(lines[i])
                /\ \A j \in 1..(i - 1) : ~IsLengthLine(lines[j])]))
    ELSE 0

\* C13: the body length read_message takes from a header block is that of the
\* first line whose key is content-length in either case.
C13_FirstLengthWins ==
    cause \in {"parsed", "nolength"} /\ block # <<>> =>
        content_length = FirstLength(SplitLines(Strip(block), <<>>))

\* The publishDiagnostics notifications in q, in order.
DiagnosticsIn(q) == SelectSeq(q, IsDiagnostics)

\* The keys of the publishDiagnostics notifications in q.
KeysIn(q) == {Basename(DiagnosticsIn(q)[k]["uri"]) : k \in 1..Len(DiagnosticsIn(q))}

\* The count of the last publishDiagnostics notification in q with key b.
LastCount(q, b) ==
    LET of == SelectSeq(DiagnosticsIn(q), LAMBDA m : Basename(m["uri"]) = b)
    IN  of[Len(of)]["diagnostics"]

\* C14: throughout the wait and at its exit the mapping has exactly the keys of
\* the publishDiagnostics notifications processed, each with the count of the
\* last one for that key; at the exit every message received has been
\* processed; and no step takes a key out of the mapping.
C14_Accumulated ==
    /\ [](WaitBegun =>
            /\ DOMAIN diagnostics_by_file = KeysIn(Processed)
            /\ \A b \in DOMAIN diagnostics_by_file :
                  diagnostics_by_file[b] = LastCount(Processed, b)
            /\ pc \notin {"wait", "crashed"} => Processed = WaitReceived)
    /\ [][DOMAIN diagnostics_by_file \subseteq DOMAIN diagnostics_by_file']_vars

\* The wait timed out with one key recorded, for which two notifications with
\* different counts had come; the later count is the one kept.
C14_Witness ==
    /\ pc = "shutdown"
    /\ ~satisfied
    /\ Len(DiagnosticsIn(WaitReceived)) = 2
    /\ WaitReceived[1]["diagnostics"] # WaitReceived[2]["diagnostics"]
    /\ DOMAIN diagnostics_by_file = {"oos.r"}
    /\ diagnostics_by_file["oos.r"] = WaitReceived[2]["diagnostics"]

\* C15: while a call of read_message is under way, in the header loop or in the
\* body read, the time is at most one polling interval past its deadline.
C15_ReceiveBounded == rm \in {"header", "body"} => remaining >= -1

\* C16: for a header block without a length (or with length 0) read_message
\* hands its caller something other than None, the value of a timeout and of
\* end-of-file, and the wait loop does not go round again on it.
C16_MalformedSignalled ==
    /\ []((rm = "ret" /\ cause = "nolength") => msg # None)
    /\ [][(pc = "wait" /\ rm = "ret" /\ cause = "nolength") => pc' # "wait"]_vars

\* The child cannot write to stderr: the pipe is full.
ErrPipeFull == childState = "running" /\ Len(errPipe) = ErrCap

\* C17: the stderr thread is started before main sends anything; while it is in
\* its loop and the pipe holds bytes it can take them, whatever main is doing;
\* it leaves the loop only when it has read end-of-file; a full pipe is emptied
\* and, the child gone, the thread comes to its end.
C17_AlwaysDrained ==
    /\ [](sent # <<>> => drain # "unstarted")
    /\ []((drain = "reading" /\ errPipe # <<>>) => ENABLED (DrainFill \/ DrainLine))
    /\ [](drain = "ended" =>
            childState = "exited" /\ errPipe = <<>> /\ linebuf = <<>>)
    /\ (ErrPipeFull ~> ~ErrPipeFull)
    /\ ((childState = "exited") ~> (drain \in {"ended", "aborted"}))

\* The pipe is full while main is busy with the session.
C17_Witness == ErrPipeFull /\ pc = "running" /\ drain = "reading"

\* The byte counts at which a frame the child wrote ends (0: before the first).
FrameEnds == {FramesLen(SubSeq(wrote, 1, k)) : k \in 0..Len(wrote)}

\* C18: when read_message has returned, whatever it returned, and the stream
\* is still open, what it has taken off the child's output so far ends at the
\* end of a frame.
C18_FrameBoundary ==
    (rm = "ret" /\ childState = "running") => Consumed \in FrameEnds

\* The path a file URI names.
UriPath(uri) == SelectSeq(uri, LAMBDA c : c # "file://")

\* C19: when the wait is satisfied, for every opened file a publishDiagnostics
\* notification whose URI names that file has been received.
C19_Coverage ==
    satisfied =>
        \A f \in Range(files_to_open) :
            \E k \in 1..Len(received) :
                IsDiagnostics(received[k]) /\ UriPath(received[k]["uri"]) = f

\* main is blocked inside send_message: bytes are left to write and stdin is
\* full.
HarnessBlocked == Sending /\ inPipe = InCap

\* C20: main is never blocked inside send_message while the child is blocked
\* writing to its stdout.
C20_NoPipeDeadlock == ~(HarnessBlocked /\ ChildBlocked)

====
